---- MODULE Spec2Model ----
(***************************************************************************)
(* S3BL, a second-stage bootloader with two firmware slots and a recovery  *)
(* HTTP server (src/src/main.cpp, src/include/flash.h).                    *)
(*                                                                         *)
(* A 32-bit word is the tuple of its four bytes, least significant first   *)
(* (the target is little-endian), so that 0xFFFFFFFF and the high-bit mask *)
(* 0x60000000 are represented exactly.  Addresses are plain integers.      *)
(* The sizes of the flash geometry are scaled down (a sector of            *)
(* 2^SectorShift bytes instead of 4096, and so on); every scaled size is   *)
(* named and keeps the relation of the source: the upload limit is larger  *)
(* than one slot, one slot is several sectors.                             *)
(***************************************************************************)
EXTENDS Integers, Sequences, FiniteSets, TLC

\* ------------------------------------------------------------------ sizes
\* log2 of the sector size; 12 in the source (SECTOR_SIZE 4096).
SectorShift == 3
\* sectors per slot; (SLOT_B_ADDRESS - SLOT_A_ADDRESS) / SECTOR_SIZE = 224 in the source.
SlotSectors == 2
\* the upload limit in sectors; 1 MiB / 4096 = 256 in the source.
UploadSectors == 8
\* how many times the device starts in one run
MaxBoots == 2
\* how many connections the recovery server accepts in one run
MaxConns == 1

RECURSIVE Pow2(_)
Pow2(n) == IF n = 0 THEN 1 ELSE 2 * Pow2(n - 1)

SECTOR_SIZE == Pow2(SectorShift)
SLOT_A_ADDRESS == 1610817536
SLOT_SIZE == SlotSectors * SECTOR_SIZE
SLOT_B_ADDRESS == SLOT_A_ADDRESS + SLOT_SIZE
MAX_UPLOAD_SIZE == UploadSectors * SECTOR_SIZE
\* sizeof(boot_metadata_t): five uint32_t
META_SIZE == 20

\* ------------------------------------------------------------------ bytes and words
RECURSIVE And8(_, _)
And8(a, b) ==
  IF a = 0 \/ b = 0 THEN 0
  ELSE (a % 2) * (b % 2) + 2 * And8(a \div 2, b \div 2)

\* a & b on uint32_t
And32(a, b) == [i \in 1 .. 4 |-> And8(a[i], b[i])]

W0 == <<0, 0, 0, 0>>
W1 == <<1, 0, 0, 0>>
\* 0xFFFFFFFF: erased flash, and the uninitialised-metadata sentinel
WFF == <<255, 255, 255, 255>>
\* 0x60000000
VT_MASK == <<0, 0, 0, 96>>
\* 0x60032001: an address inside the external flash
WGOOD == <<1, 32, 3, 96>>
\* 0x20010000: an address in RAM
WRAM == <<0, 0, 1, 32>>

\* ------------------------------------------------------------------ strings
\* Strings are sequences of bytes; indices are 0-based as in the source.
RECURSIVE Flatten(_)
Flatten(ss) == IF ss = <<>> THEN <<>> ELSE Head(ss) \o Flatten(Tail(ss))

CRLF == <<13, 10>>
CRLFCRLF == <<13, 10, 13, 10>>
\* "Content-Type:"
CONTENT_TYPE == <<67, 111, 110, 116, 101, 110, 116, 45, 84, 121, 112, 101, 58>>
\* "--"
DASHDASH == <<45, 45>>

MatchAt(s, pat, i) ==
  /\ i + Len(pat) <= Len(s)
  /\ \A k \in 1 .. Len(pat) : s[i + k] = pat[k]

\* the least element of a set of numbers, -1 for the empty set
Least(hits) == IF hits = {} THEN -1 ELSE CHOOSE i \in hits : \A j \in hits : i <= j

\* String::indexOf(pat, from): the first index >= from where pat occurs, or -1
\* (p and f are pat and from, evaluated once, and so is the set of matches)
IndexOf(s, pat, from) ==
  CHOOSE r \in
    { Least(hits) :
        hits \in {UNION {{i \in f .. (Len(s) - Len(p)) : i >= 0 /\ i < Len(s) /\ MatchAt(s, p, i)}
                           : p \in {pat}, f \in {from}}} } : TRUE

\* String::substring(left, right): bytes left .. right-1 (right clamped, -1 is UINT_MAX)
Substring(s, left, right) ==
  LET r == IF right < 0 \/ right > Len(s) THEN Len(s) ELSE right
  IN SubSeq(s, left + 1, r)

\* ------------------------------------------------------------------ multipart extraction
\* main.cpp 390-396, with the index of "Content-Type:" and of the empty line
\* after it already found
ExtractFrom(code, content_type_idx, bin_hdr_end) ==
  IF content_type_idx >= 0 /\ bin_hdr_end >= 0
    THEN [bin_start |-> bin_hdr_end + 4,
          bin_end |-> IndexOf(code, Substring(code, 0, IndexOf(code, CRLF, 0)),
                              bin_hdr_end + 4) - 4]
    ELSE [bin_start |-> -1, bin_end |-> -1]

\* main.cpp 386-397: the payload range [bin_start, bin_end) of the body `code`
Extract(code) ==
  CHOOSE r \in
    UNION { { ExtractFrom(code, content_type_idx, bin_hdr_end) :
                bin_hdr_end \in {IF content_type_idx >= 0
                                   THEN IndexOf(code, CRLFCRLF, content_type_idx) ELSE -1} }
            : content_type_idx \in {IndexOf(code, CONTENT_TYPE, 0)} } : TRUE

\* the condition with an empty range let through
ExtractOkLax(r) == r.bin_start >= 0 /\ r.bin_end >= r.bin_start

\* main.cpp 398: the condition under which the payload is flashed
ExtractOk(r) == r.bin_start >= 0 /\ r.bin_end > r.bin_start

\* ------------------------------------------------------------------ flash
\* Word addresses of the modelled flash: both slots and the room an upload of
\* the largest accepted size can reach from the base of slot B.
FlashAddrs == {SLOT_A_ADDRESS + 4 * i : i \in 0 .. ((SLOT_SIZE + MAX_UPLOAD_SIZE) \div 4) - 1}

\* addr & ~(SECTOR_SIZE - 1), SECTOR_SIZE a power of two
SectorBase(addr) == addr - (addr % SECTOR_SIZE)

SlotAddrs(base) == {a \in FlashAddrs : base <= a /\ a < base + SLOT_SIZE}

\* flash_erase_sector: the sector-erase command sets every bit of the sector
\* that holds addr.
FlashEraseSector(f, addr) ==
  [a \in DOMAIN f |-> IF SectorBase(a) = SectorBase(addr) THEN WFF ELSE f[a]]

\* size_t words = (len + 3) / 4
WordCount(len) == (len + 3) \div 4

\* c_str()[k]: the bytes of the string, then its terminating NUL
ByteAt(code, k) == IF k < Len(code) THEN code[k + 1] ELSE 0

\* src[i] for src = (const uint32_t*)(code.c_str() + off)
SrcWord(code, off, i) == [k \in 1 .. 4 |-> ByteAt(code, off + 4 * i + k - 1)]

\* the sectors flash_write erases before programming: the one holding addr
WriteErasedSectors(addr, len) == {SectorBase(addr)}

\* the word addresses the programming loop of flash_write writes
WriteProgrammedAddrs(addr, len) == {addr + 4 * i : i \in 0 .. WordCount(len) - 1}

\* The page-program command can only clear bits: the cell becomes old & data.
ProgramWord(old, data) == And32(old, data)

\* flash_write up to the end of the programming loop (lines 84-127); e is
\* the flash after the erase of line 88
FlashWrite(f, addr, code, off, len) ==
  CHOOSE g \in
    { [a \in DOMAIN e |->
         IF a \in WriteProgrammedAddrs(addr, len)
           THEN ProgramWord(e[a], SrcWord(code, off, (a - addr) \div 4))
           ELSE e[a]]
      : e \in {FlashEraseSector(f, SectorBase(addr))} } : TRUE

\* flash_erase_sector (lines 55-80) as the steps it takes: __disable_irq,
\* the write-enable command and the wait for its completion, the
\* sector-erase command and its wait, __enable_irq, the return
FlashEraseSectorSteps ==
  <<"disable_irq", "write_enable", "wait", "sector_erase", "wait", "enable_irq", "return">>

\* lines 104-125: for every word the write-enable command, its wait, the
\* wait for the flash to be ready, the page-program command and its waits
RECURSIVE ProgramLoopSteps(_)
ProgramLoopSteps(words) ==
  IF words = 0 THEN <<>>
  ELSE <<"write_enable", "wait", "wait_ready", "page_program", "wait", "wait_ready">>
         \o ProgramLoopSteps(words - 1)

\* the steps of one call of fn, made at line `site`
At(site, fn, steps) ==
  CHOOSE t \in { [i \in 1 .. Len(s) |-> [site |-> site, fn |-> fn, op |-> s[i]]]
                 : s \in {steps} } : TRUE

\* flash_write without the __disable_irq of line 91
FlashWriteStepsNoDisable(len) ==
  At(88, "flash_erase_sector", FlashEraseSectorSteps)
    \o At(406, "flash_write", ProgramLoopSteps(WordCount(len)) \o <<"enable_irq", "return">>)

\* flash_write (lines 82-152): the erase of line 88, __disable_irq, the
\* programming loop, __enable_irq; the read-back that follows issues no
\* command
FlashWriteSteps(len) ==
  At(88, "flash_erase_sector", FlashEraseSectorSteps)
    \o At(406, "flash_write",
          <<"disable_irq">> \o ProgramLoopSteps(WordCount(len)) \o <<"enable_irq", "return">>)

\* __disable_irq sets PRIMASK and __enable_irq clears it, whatever it was:
\* after step i interrupts are as the last of the two up to i left them, or
\* as they were before the steps
IrqAt(steps, i, irq) ==
  CHOOSE b \in
    { IF sw = {} THEN irq
      ELSE steps[CHOOSE j \in sw : \A k \in sw : k <= j].op = "enable_irq"
      : sw \in {{j \in 1 .. i : steps[j].op \in {"disable_irq", "enable_irq"}}} } : TRUE

\* the steps as taken from a state where interrupts are enabled or not
RunSteps(steps, irq) ==
  CHOOSE log \in
    { [i \in 1 .. Len(s) |->
         [site |-> s[i].site, fn |-> s[i].fn, op |-> s[i].op, irq |-> IrqAt(s, i, q)]]
      : s \in {steps}, q \in {irq} } : TRUE

\* flash_write's read-back loop (lines 134-147): verify_failed
VerifyFailed(f, addr, code, off, len) ==
  \E i \in 0 .. WordCount(len) - 1 : f[addr + 4 * i] # SrcWord(code, off, i)

\* ------------------------------------------------------------------ metadata
ZeroMeta == [active_slot |-> W0, valid_a |-> W0, valid_b |-> W0,
             boot_count |-> W0, boot_success |-> W0]

\* the bytes of a boot_metadata_t in memory
Serialize(m) == m.active_slot \o m.valid_a \o m.valid_b \o m.boot_count \o m.boot_success

Deserialize(b) ==
  [active_slot |-> SubSeq(b, 1, 4), valid_a |-> SubSeq(b, 5, 8), valid_b |-> SubSeq(b, 9, 12),
   boot_count |-> SubSeq(b, 13, 16), boot_success |-> SubSeq(b, 17, 20)]

\* The file /meta.bin is the sequence of its bytes; the empty sequence is the
\* absent file (load_metadata treats both alike).  save_metadata opens the
\* file with FILE_WRITE, the mode that creates the file when it is absent
\* and positions an existing file at its end (the mode that starts at the
\* beginning is FILE_WRITE_BEGIN), and never removes or truncates it: the
\* 20 bytes of the record go after whatever the file holds.  `opened` is
\* the outcome of myfs.open, which save_metadata tests and otherwise only
\* logs.
SaveMetadata(file, m, opened) ==
  IF opened
    THEN file \o Serialize(m)
    ELSE file

\* load_metadata: the return value, and the record read when it is true
LoadOk(file) == Len(file) = META_SIZE
LoadMetadata(file) == Deserialize(file)

\* ------------------------------------------------------------------ boot decision
\* (sp & 0x60000000) == 0x60000000 && (rv & 0x60000000) == 0x60000000
VectorTableOk(f, base) ==
  /\ And32(f[base], VT_MASK) = VT_MASK
  /\ And32(f[base + 4], VT_MASK) = VT_MASK

Truthy(w) == w # W0

\* BootDecision with the fallback branches jumping unchecked
BootDecisionUnchecked(m, f) ==
  IF m.active_slot = W0 /\ Truthy(m.valid_a)
    THEN (IF VectorTableOk(f, SLOT_A_ADDRESS) THEN "BootA" ELSE "Loop")
  ELSE IF m.active_slot = W1 /\ Truthy(m.valid_b)
    THEN (IF VectorTableOk(f, SLOT_B_ADDRESS) THEN "BootB" ELSE "Loop")
  ELSE IF Truthy(m.valid_a) THEN "BootA"
  ELSE IF Truthy(m.valid_b) THEN "BootB"
  ELSE "Idle"

\* BootDecision with slot A tried before the active slot B
BootDecisionAFirst(m, f) ==
  IF Truthy(m.valid_a)
    THEN (IF VectorTableOk(f, SLOT_A_ADDRESS) THEN "BootA" ELSE "Loop")
  ELSE IF Truthy(m.valid_b)
    THEN (IF VectorTableOk(f, SLOT_B_ADDRESS) THEN "BootB" ELSE "Loop")
  ELSE "Idle"

\* main.cpp 220-283: where setup() goes after the metadata is known.  A
\* branch whose vector-table check fails takes no other branch: setup()
\* returns and loop() runs.
BootDecision(m, f) ==
  IF m.active_slot = W0 /\ Truthy(m.valid_a)
    THEN (IF VectorTableOk(f, SLOT_A_ADDRESS) THEN "BootA" ELSE "Loop")
  ELSE IF m.active_slot = W1 /\ Truthy(m.valid_b)
    THEN (IF VectorTableOk(f, SLOT_B_ADDRESS) THEN "BootB" ELSE "Loop")
  ELSE IF Truthy(m.valid_a)
    THEN (IF VectorTableOk(f, SLOT_A_ADDRESS) THEN "BootA" ELSE "Loop")
  ELSE IF Truthy(m.valid_b)
    THEN (IF VectorTableOk(f, SLOT_B_ADDRESS) THEN "BootB" ELSE "Loop")
  ELSE "Idle"

\* ------------------------------------------------------------------ requests
\* "POST /upload"
POST_UPLOAD == <<80, 79, 83, 84, 32, 47, 117, 112, 108, 111, 97, 100>>
\* "GET / "
GET_ROOT == <<71, 69, 84, 32, 47, 32>>
\* "GET /HTTP"
GET_HTTP == <<71, 69, 84, 32, 47, 72, 84, 84, 80>>
\* " HTTP/1.1"
HTTP11 == <<32, 72, 84, 84, 80, 47, 49, 46, 49>>
\* "GET /favicon.ico HTTP/1.1"
GET_OTHER == <<71, 69, 84, 32, 47, 102, 97, 118, 105, 99, 111, 110, 46, 105, 99, 111>> \o HTTP11

\* a comparison of the first five bytes only
StartsWithShort(s, prefix) == MatchAt(s, SubSeq(prefix, 1, 5), 0)

\* String::startsWith
StartsWith(s, prefix) == MatchAt(s, prefix, 0)

\* The request lines a client sends; the empty one is a client that sends
\* a line end only.
RequestLines ==
  {POST_UPLOAD \o HTTP11, GET_ROOT \o Tail(HTTP11), GET_HTTP, GET_OTHER, <<>>}

\* "--X", the first line of a multipart body
BOUNDARY == <<45, 45, 88>>

\* BOUNDARY CRLF part-header CRLF CRLF payload CRLF BOUNDARY "--"
MkBody(payload) ==
  Flatten(<<BOUNDARY, CRLF, CONTENT_TYPE, CRLFCRLF, payload, CRLF, BOUNDARY, DASHDASH>>)

\* where the payload of MkBody(p) starts, and the framing bytes around it
PayloadStart == Len(BOUNDARY) + Len(CRLF) + Len(CONTENT_TYPE) + Len(CRLFCRLF)
Framing == PayloadStart + Len(CRLF) + Len(BOUNDARY) + Len(DASHDASH)

\* firmware images: a payload of n bytes repeating a two-word pattern, the
\* stack pointer in the flash or in RAM
Fill(pattern, n) == [i \in 1 .. n |-> pattern[((i - 1) % Len(pattern)) + 1]]

\* payload lengths: short ones, one that reaches a second sector, one that
\* is longer than a slot, and the ones that take the body to the upload
\* limit and one byte past it
PayloadLens ==
  {2, 4, 6, SECTOR_SIZE + 4, SLOT_SIZE + 4,
   MAX_UPLOAD_SIZE - Framing, MAX_UPLOAD_SIZE - Framing + 1}

Payloads ==
  {Fill(WGOOD \o WGOOD, n) : n \in PayloadLens} \cup {Fill(WRAM \o WGOOD, 8)}

\* bodies that are not a well-formed single-part upload: no Content-Type
\* header, no blank line, no closing boundary
BadBodies ==
  { Flatten(<<BOUNDARY, CRLF, CRLFCRLF, WGOOD, CRLF, BOUNDARY, DASHDASH>>),
    Flatten(<<BOUNDARY, CRLF, CONTENT_TYPE, CRLF, WGOOD, CRLF, BOUNDARY, DASHDASH>>),
    Flatten(<<BOUNDARY, CRLF, CONTENT_TYPE, CRLFCRLF, WGOOD, WGOOD>>) }

Bodies == {MkBody(p) : p \in Payloads} \cup BadBodies

\* "Content-Length:"
CONTENT_LENGTH == <<67, 111, 110, 116, 101, 110, 116, 45, 76, 101, 110, 103, 116, 104, 58>>

\* the decimal digits of n >= 0
RECURSIVE Dec(_)
Dec(n) == IF n < 10 THEN <<48 + n>> ELSE Dec(n \div 10) \o <<48 + (n % 10)>>

\* the header block a client sends after the request line: a Content-Length
\* header announcing c (none when c = 0), then the empty line
HeaderBlock(c) ==
  IF c = 0 THEN CRLF
  ELSE Flatten(<<CONTENT_LENGTH, <<32>>, IF c < 0 THEN <<45>> \o Dec(-c) ELSE Dec(c),
                 CRLF, CRLF>>)

\* the header block cut in two network arrivals after its first k bytes
CutAt(h, k) == <<SubSeq(h, 1, k), SubSeq(h, k + 1, Len(h))>>

\* A client: its request line, the Content-Length it announces (0 when it
\* sends no such header), the body it means to send, how many bytes of it
\* arrive, and whether it then closes the connection or stays silent.
\* `first_byte` is how many milliseconds after the connection the request
\* line arrives; `hdr` is the header block as the bytes available at the
\* successive polls of the header loop (the first entry is what arrived with
\* the request line, an empty entry is a poll that finds nothing new);
\* `bursts` is the body as it arrives, each burst after a silence of `gap`
\* milliseconds.
Client(l, c, b, d, k) ==
  [line |-> l, cl |-> c, body |-> b, delivered |-> d, closes |-> k,
   first_byte |-> 0, hdr |-> <<HeaderBlock(c)>>, bursts |-> <<[gap |-> 0, n |-> d]>>]

\* the whole body, announced truthfully
Truthful(b) == Client(POST_UPLOAD \o HTTP11, Len(b), b, Len(b), TRUE)

\* the other things a client does with a body of n bytes
Misbehaving(b) ==
  LET n == Len(b)
      post == POST_UPLOAD \o HTTP11
  IN { Client(post, 0, b, n, TRUE),        \* no Content-Length header
       Client(post, -1, b, n, TRUE),       \* a negative Content-Length
       Client(post, n - 2, b, n, TRUE),    \* a Content-Length short of the body
       Client(post, n, b, n - 2, TRUE),    \* the client goes away before the last two bytes
       Client(post, n, b, n - 3, TRUE),    \* the client goes away inside the closing boundary
       Client(post, n, b, n - 3, FALSE) }  \* the client falls silent before the end

\* the body of n bytes arriving in two bursts, the first of k bytes
Paced(b, k, gap1, gap2) ==
  [Truthful(b) EXCEPT !.bursts = <<[gap |-> gap1, n |-> k], [gap |-> gap2, n |-> Len(b) - k]>>]

\* clients that pause: twice for less than the deadline but longer in all,
\* for one millisecond short of the deadline, for the deadline, and before
\* the first byte of the body
Pausing(b) ==
  { Paced(b, 10, 6000, 6000), Paced(b, 10, 0, 9999), Paced(b, 10, 0, 10000),
    Paced(b, 10, 10000, 0) }

\* the header block of a truthful client in several arrivals: cut inside the
\* header name, inside the number, between the header line and the empty
\* line, and not there at all when the header loop first polls
SplitHeaders(b) ==
  LET h == HeaderBlock(Len(b))
  IN { [Truthful(b) EXCEPT !.hdr = CutAt(h, 11)],
       [Truthful(b) EXCEPT !.hdr = CutAt(h, Len(CONTENT_LENGTH) + 2)],
       [Truthful(b) EXCEPT !.hdr = CutAt(h, Len(h) - 2)],
       [Truthful(b) EXCEPT !.hdr = <<<<>>, h>>] }

\* a client whose request line comes a second after it connected
Mute == [Client(GET_ROOT \o Tail(HTTP11), 0, <<>>, 0, TRUE) EXCEPT !.first_byte = 1000]

\* an ordinary image
ProbeBody == MkBody(Fill(WGOOD \o WGOOD, 8))

\* the bodies sent in every way: an ordinary image and one past the limit
ProbeBodies ==
  {MkBody(Fill(WGOOD \o WGOOD, n)) : n \in {8, MAX_UPLOAD_SIZE - Framing + 1}}

Requests ==
  {Client(l, 0, <<>>, 0, TRUE) : l \in RequestLines}
    \cup {Mute}
    \cup {Truthful(b) : b \in Bodies}
    \cup UNION {Misbehaving(b) : b \in ProbeBodies}
    \cup Pausing(ProbeBody)
    \cup SplitHeaders(ProbeBody)

NoRequest == Client(<<>>, 0, <<>>, 0, TRUE)

\* ------------------------------------------------------------------ state
VARIABLES
  pc,          \* where the program is: PowerOn, Halted, BootA, BootB, Loop, Idle (the
               \* accept loop of recovery mode), Route, Body, Closed, Flashed, Saved, Responded
  file,        \* the bytes of /meta.bin
  init_meta,   \* setup()'s init_meta
  init_log,    \* what setup() reported about the metadata: loaded, write_ok, write_failed
  flash,       \* the words of the external flash, by address
  boots,       \* how many times setup() has started
  conns,       \* how many connections have been accepted
  boot_log,    \* for every run of setup() past myfs.begin: the file before and after
               \* the metadata was loaded or initialised, the record used, whether
               \* the initialising save_metadata was called and whether it wrote
  jump,        \* what jump_to_app loaded: the vector table address, sp, pc
  client,      \* the request of the connection being served
  conn,        \* the locals of the connection being served
  response,    \* the HTTP status line sent on the connection
  events,      \* what the upload path has done on this connection, in order
  erased,      \* the sector bases erased for this connection
  irq_log,     \* the steps flash_erase_sector and flash_write took for this
               \* connection, each with whether interrupts are enabled after it
  programmed,  \* the word addresses programmed for this connection
  snap         \* flash, file and init_meta as they were when the connection was accepted

vars == <<pc, file, init_meta, init_log, flash, jump, boots, conns, boot_log, client, conn, response,
          events, erased, irq_log, programmed, snap>>

NoJump == [address |-> 0, stack_pointer |-> W0, program_counter |-> W0]

NoConn == [req_line |-> <<>>, content_length |-> 0, code |-> <<>>, upload_bytes |-> 0,
           upload_too_large |-> FALSE, timed_out |-> FALSE,
           bin_start |-> -1, bin_end |-> -1, target_addr |-> 0, verify_failed |-> FALSE]

Snapshot == [flash |-> flash, file |-> file, init_meta |-> init_meta]

\* ------------------------------------------------------------------ initial states
MkMeta(a, va, vb) ==
  [active_slot |-> a, valid_a |-> va, valid_b |-> vb, boot_count |-> W0, boot_success |-> W0]

\* every record over slots 0 and 1, and one that carries the sentinel
MetaRecords ==
  {MkMeta(a, va, vb) : a \in {W0, W1}, va \in {W0, W1}, vb \in {W0, W1}}
    \cup {MkMeta(WFF, W1, W1)}

\* /meta.bin before the first boot: absent, a file of the wrong size, or a
\* record left by an earlier run
InitFiles == {<<>>, WFF} \cup {Serialize(m) : m \in MetaRecords}

\* what a slot holds, as its first word and the word that fills the rest:
\* erased flash, an image whose vectors point into the flash, zeroes
SlotImages == {<<WFF, WFF>>, <<WGOOD, WGOOD>>, <<W0, W0>>}

ImageWord(img, base, a) == IF a = base THEN img[1] ELSE img[2]

MkFlash(imgA, imgB) ==
  [a \in FlashAddrs |->
     IF a \in SlotAddrs(SLOT_A_ADDRESS) THEN ImageWord(imgA, SLOT_A_ADDRESS, a)
     ELSE IF a \in SlotAddrs(SLOT_B_ADDRESS) THEN ImageWord(imgB, SLOT_B_ADDRESS, a)
     ELSE WFF]

Init ==
  /\ pc = "PowerOn"
  /\ file \in InitFiles
  /\ flash \in {MkFlash(a, b) : a \in SlotImages, b \in SlotImages}
  /\ init_meta = ZeroMeta
  /\ init_log = "none"
  /\ jump = NoJump
  /\ boots = 0
  /\ conns = 0
  /\ boot_log = <<>>
  /\ client = NoRequest
  /\ conn = NoConn
  /\ response = "none"
  /\ events = <<>>
  /\ erased = {}
  /\ irq_log = <<>>
  /\ programmed = {}
  /\ snap = Snapshot

\* ------------------------------------------------------------------ boot
\* jump_to_app(address): the words it loads into msp and branches to
JumpToApp(f, address) ==
  [address |-> address, stack_pointer |-> f[address], program_counter |-> f[address + 4]]

JumpOf(where, f) ==
  IF where = "BootA" THEN JumpToApp(f, SLOT_A_ADDRESS)
  ELSE IF where = "BootB" THEN JumpToApp(f, SLOT_B_ADDRESS)
  ELSE NoJump

ConnIdle ==
  /\ client' = NoRequest
  /\ conn' = NoConn

\* setup() 184-187: the file system does not start, the program spins
BootHalt ==
  /\ pc = "PowerOn"
  /\ boots < MaxBoots
  /\ boots' = boots + 1
  /\ pc' = "Halted"
  /\ response' = "none"
  /\ events' = <<>>
  /\ erased' = {}
  /\ irq_log' = <<>>
  /\ programmed' = {}
  /\ snap' = Snapshot
  /\ ConnIdle
  /\ UNCHANGED <<file, init_meta, init_log, flash, jump, conns, boot_log>>

\* setup() 188-283: load or initialise the metadata, then the boot decision.
\* `opened` is whether save_metadata could open the file.
Boot ==
  /\ pc = "PowerOn"
  /\ boots < MaxBoots
  /\ boots' = boots + 1
  /\ \E opened \in BOOLEAN :
       LET need_init == ~LoadOk(file) \/ LoadMetadata(file).active_slot = WFF
           m == IF need_init THEN ZeroMeta ELSE LoadMetadata(file)
           f2 == IF need_init THEN SaveMetadata(file, ZeroMeta, opened) ELSE file
           verified == LoadOk(f2) /\ LoadMetadata(f2).active_slot = W0
           where == BootDecision(m, flash)
       IN /\ (~need_init => opened)
          /\ init_meta' = m
          /\ file' = f2
          /\ init_log' = IF ~need_init THEN "loaded"
                         ELSE IF verified THEN "write_ok" ELSE "write_failed"
          /\ pc' = where
          /\ jump' = JumpOf(where, flash)
          /\ boot_log' = Append(boot_log, [before |-> file, after |-> f2, meta |-> m,
                                           init |-> need_init, wrote |-> need_init /\ opened])
  /\ response' = "none"
  /\ events' = <<>>
  /\ erased' = {}
  /\ irq_log' = <<>>
  /\ programmed' = {}
  /\ snap' = [flash |-> flash, file |-> file', init_meta |-> init_meta']
  /\ ConnIdle
  /\ UNCHANGED <<flash, conns>>

\* power is cycled while the program sits in one of its resting states
PowerCycle ==
  /\ pc \in {"Halted", "BootA", "BootB", "Loop", "Idle"}
  /\ pc' = "PowerOn"
  /\ init_meta' = ZeroMeta
  /\ init_log' = "none"
  /\ jump' = NoJump
  /\ response' = "none"
  /\ snap' = [flash |-> flash, file |-> file, init_meta |-> ZeroMeta]
  /\ UNCHANGED <<file, flash, boots, conns, boot_log, client, conn, events, erased, irq_log, programmed>>

\* ------------------------------------------------------------------ recovery server
Min(a, b) == IF a < b THEN a ELSE b

\* upload_bytes < content_length compares a size_t with an int: a negative
\* content_length converts to a value above every count the loop can reach
BodyLimit(content_length) ==
  IF content_length < 0 THEN MAX_UPLOAD_SIZE + 1 ELSE content_length

\* the size check with the limit a thousand times too high
UploadTooLargeLax(upload_bytes) == upload_bytes > 1024 * MAX_UPLOAD_SIZE

\* line 349: upload_bytes > MAX_UPLOAD_SIZE
UploadTooLarge(upload_bytes) == upload_bytes > MAX_UPLOAD_SIZE

\* lines 334-357: the number of body bytes the read loop consumes when
\* `delivered` bytes arrive: it stops at content_length bytes, and at the
\* first byte past MAX_UPLOAD_SIZE
BodyBytesRead(content_length, delivered) ==
  Min(Min(delivered, BodyLimit(content_length)), MAX_UPLOAD_SIZE + 1)

\* line 302: the wait for the first byte gives up after this many milliseconds
FIRST_BYTE_MS == 1000

\* lines 300-313: the request line as read.  The wait loop ends when a byte
\* is available or FIRST_BYTE_MS have gone by; the read loop then takes what
\* is available, which is nothing for a client that has not sent yet.
RequestLine(r) == IF r.first_byte < FIRST_BYTE_MS THEN r.line ELSE <<>>

\* lines 320-325: one pass of the inner loop over the bytes available now:
\* it stops after '\n' or when nothing is available, and drops '\r'
RECURSIVE ReadLine(_, _)
ReadLine(avail, line) ==
  IF avail = <<>> THEN [line |-> line, rest |-> <<>>]
  ELSE IF Head(avail) = 10 THEN [line |-> line, rest |-> Tail(avail)]
  ELSE ReadLine(Tail(avail), IF Head(avail) = 13 THEN line ELSE Append(line, Head(avail)))

\* String::toInt (atol): leading blanks, a sign, then digits up to the first
\* byte that is not one
RECURSIVE DigitsValue(_, _)
DigitsValue(s, acc) ==
  IF s = <<>> \/ Head(s) \notin 48 .. 57 THEN acc
  ELSE DigitsValue(Tail(s), 10 * acc + (Head(s) - 48))

RECURSIVE ToInt(_)
ToInt(s) ==
  IF s = <<>> THEN 0
  ELSE IF Head(s) \in {32, 9, 10, 11, 12, 13} THEN ToInt(Tail(s))
  ELSE IF Head(s) = 45 THEN 0 - DigitsValue(Tail(s), 0)
  ELSE IF Head(s) = 43 THEN DigitsValue(Tail(s), 0)
  ELSE DigitsValue(s, 0)

\* lines 328-330
ContentLengthOf(line, content_length) ==
  IF StartsWith(line, CONTENT_LENGTH) THEN ToInt(Substring(line, 15, -1)) ELSE content_length

\* lines 316-332: the header loop.  `avail` is what is available to the
\* inner loop now, `later` what the following polls find.  A line that is
\* empty, because the empty line was read or because nothing was available,
\* ends the loop; `rest` is what the loop leaves unread.  (r is the line
\* read by this pass, evaluated once.)
RECURSIVE ReadHeaders(_, _, _)
ReadHeaders(avail, later, content_length) ==
  CHOOSE result \in
    { IF r.line = <<>>
        THEN [content_length |-> content_length, rest |-> r.rest \o Flatten(later)]
        ELSE LET more == r.rest = <<>> /\ later # <<>>
             IN ReadHeaders(IF more THEN Head(later) ELSE r.rest,
                            IF more THEN Tail(later) ELSE later,
                            ContentLengthOf(r.line, content_length))
      : r \in {ReadLine(avail, <<>>)} } : TRUE

\* line 337 and 354: ten seconds
BODY_TIMEOUT_MS == 10000

\* the deadline left where it was set before the loop
RearmNever(timeout, now) == timeout

\* line 354: timeout = millis() + 10000, after every byte
Rearm(timeout, now) == now + BODY_TIMEOUT_MS

\* lines 337-357: the body loop over the bursts in which the body arrives,
\* n bytes read so far at time `now`.  A burst that comes at or after the
\* deadline is not read; when the bursts are over and bytes are missing the
\* loop ends at once if the client has closed, at the deadline if not.
RECURSIVE BodyLoop(_, _, _, _, _, _)
BodyLoop(content_length, bursts, closes, n, now, timeout) ==
  IF n >= BodyLimit(content_length) \/ UploadTooLarge(n)
    THEN [upload_bytes |-> n, now |-> now, timeout |-> timeout]
  ELSE IF bursts = <<>>
    THEN [upload_bytes |-> n, now |-> IF closes THEN now ELSE timeout, timeout |-> timeout]
  ELSE LET b == Head(bursts)
           t == now + b.gap
           m == BodyBytesRead(content_length, n + b.n)
       IN IF t >= timeout
            THEN [upload_bytes |-> n, now |-> t, timeout |-> timeout]
            ELSE BodyLoop(content_length, Tail(bursts), closes, m, t,
                          IF m > n THEN Rearm(timeout, t) ELSE timeout)

\* lines 296-313: a client connects and its request line is read
Accept ==
  /\ pc = "Idle"
  /\ conns < MaxConns
  /\ conns' = conns + 1
  /\ \E r \in Requests :
       /\ client' = r
       /\ conn' = [NoConn EXCEPT !.req_line = RequestLine(r)]
  /\ pc' = "Route"
  /\ response' = "none"
  /\ events' = <<>>
  /\ erased' = {}
  /\ irq_log' = <<>>
  /\ programmed' = {}
  /\ snap' = Snapshot
  /\ UNCHANGED <<file, init_meta, init_log, flash, jump, boots, boot_log>>

\* client.stop(); continue: the connection is closed and the accept loop
\* goes round (lines 295-296, 477)
Continue ==
  /\ pc = "Closed"
  /\ pc' = "Idle"
  /\ response' = "none"
  /\ ConnIdle
  /\ UNCHANGED <<file, init_meta, init_log, flash, jump, boots, conns, boot_log, events, erased, irq_log, programmed, snap>>

\* lines 440-463: the upload form
ServeForm ==
  /\ pc = "Route"
  /\ ~StartsWith(conn.req_line, POST_UPLOAD)
  /\ StartsWith(conn.req_line, GET_ROOT) \/ StartsWith(conn.req_line, GET_HTTP)
  /\ response' = "200 text/html"
  /\ pc' = "Closed"
  /\ UNCHANGED <<file, init_meta, init_log, flash, jump, boots, conns, boot_log, client, conn, events, erased, irq_log, programmed, snap>>

\* lines 464-475: any other request line is acknowledged
Echo ==
  /\ pc = "Route"
  /\ ~StartsWith(conn.req_line, POST_UPLOAD)
  /\ ~(StartsWith(conn.req_line, GET_ROOT) \/ StartsWith(conn.req_line, GET_HTTP))
  /\ response' = "200 text/plain"
  /\ pc' = "Closed"
  /\ UNCHANGED <<file, init_meta, init_log, flash, jump, boots, conns, boot_log, client, conn, events, erased, irq_log, programmed, snap>>

\* lines 315-357: the headers give content_length, then the body is read
\* until content_length bytes are in, the client is gone, the limit is
\* passed or ten seconds go by without a byte.  What the header loop left
\* unread is the first thing the body loop finds.
ReadUpload ==
  /\ pc = "Route"
  /\ StartsWith(conn.req_line, POST_UPLOAD)
  /\ \E h \in {ReadHeaders(Head(client.hdr), Tail(client.hdr), 0)} :
     \E r \in {BodyLoop(h.content_length,
                        <<[gap |-> 0, n |-> Len(h.rest)]>> \o client.bursts,
                        client.closes, 0, 0, BODY_TIMEOUT_MS)} :
       LET stream == h.rest \o SubSeq(client.body, 1, client.delivered)
           too_large == UploadTooLarge(r.upload_bytes)
       IN conn' = [conn EXCEPT
                     !.content_length = h.content_length,
                     !.upload_bytes = r.upload_bytes,
                     !.code = SubSeq(stream, 1, r.upload_bytes),
                     !.upload_too_large = too_large,
                     !.timed_out = ~too_large /\ r.now >= r.timeout]
  /\ pc' = "Body"
  /\ UNCHANGED <<file, init_meta, init_log, flash, jump, boots, conns, boot_log, client, response,
                 events, erased, irq_log, programmed, snap>>

\* lines 358-366
TooLarge ==
  /\ pc = "Body"
  /\ conn.upload_too_large
  /\ response' = "413"
  /\ pc' = "Closed"
  /\ UNCHANGED <<file, init_meta, init_log, flash, jump, boots, conns, boot_log, client, conn, events, erased, irq_log, programmed, snap>>

\* the body loop without a deadline: a silent client is waited for for ever
TimeoutNever ==
  /\ pc = "Body"
  /\ ~conn.upload_too_large
  /\ conn.timed_out
  /\ UNCHANGED vars

\* lines 370-379
Timeout ==
  /\ pc = "Body"
  /\ ~conn.upload_too_large
  /\ conn.timed_out
  /\ response' = "408"
  /\ pc' = "Closed"
  /\ UNCHANGED <<file, init_meta, init_log, flash, jump, boots, conns, boot_log, client, conn, events, erased, irq_log, programmed, snap>>

BodyAccepted == pc = "Body" /\ ~conn.upload_too_large /\ ~conn.timed_out

\* line 384
TargetAddr(m) == IF m.active_slot = W0 THEN SLOT_B_ADDRESS ELSE SLOT_A_ADDRESS

\* lines 408-417: the payload was not found
ExtractFail ==
  /\ BodyAccepted
  /\ \E r \in {Extract(conn.code)} : ~ExtractOk(r)
  /\ response' = "400"
  /\ pc' = "Closed"
  /\ UNCHANGED <<file, init_meta, init_log, flash, jump, boots, conns, boot_log, client, conn, events, erased, irq_log, programmed, snap>>

\* lines 384-407: the payload is found and written to the target slot
FlashPayload ==
  /\ BodyAccepted
  /\ \E r \in {Extract(conn.code)} :
     \E target_addr \in {TargetAddr(init_meta)} :
     \E f1 \in {FlashEraseSector(flash, target_addr)} :
     \E f2 \in {FlashWrite(f1, target_addr, conn.code, r.bin_start, r.bin_end - r.bin_start)} :
       LET bin_len == r.bin_end - r.bin_start
       IN /\ ExtractOk(r)
          /\ flash' = f2
          /\ conn' = [conn EXCEPT
                        !.bin_start = r.bin_start,
                        !.bin_end = r.bin_end,
                        !.target_addr = target_addr,
                        !.verify_failed =
                            VerifyFailed(f2, target_addr, conn.code, r.bin_start, bin_len)]
          /\ erased' = {SectorBase(target_addr)} \cup WriteErasedSectors(target_addr, bin_len)
          /\ programmed' = WriteProgrammedAddrs(target_addr, bin_len)
          /\ irq_log' = RunSteps(At(405, "flash_erase_sector", FlashEraseSectorSteps)
                                    \o FlashWriteSteps(bin_len), TRUE)
  /\ events' = events \o <<"erase", "program">>
  /\ pc' = "Flashed"
  /\ UNCHANGED <<file, init_meta, init_log, jump, boots, conns, boot_log, client, response, snap>>

\* lines 420-428
FlipMetadata(m) ==
  IF m.active_slot = W0
    THEN [m EXCEPT !.valid_b = W1, !.active_slot = W1, !.valid_a = W0]
    ELSE [m EXCEPT !.valid_a = W1, !.active_slot = W0, !.valid_b = W0]

\* lines 418-429: the metadata is flipped to the written slot and saved
UpdateMetadata ==
  /\ pc = "Flashed"
  /\ init_meta' = FlipMetadata(init_meta)
  /\ \E opened \in BOOLEAN : file' = SaveMetadata(file, init_meta', opened)
  /\ events' = Append(events, "save")
  /\ pc' = "Saved"
  /\ UNCHANGED <<init_log, flash, jump, boots, conns, boot_log, client, conn, response, erased, irq_log, programmed, snap>>

\* lines 430-436
Respond ==
  /\ pc = "Saved"
  /\ response' = "200"
  /\ events' = Append(events, "200")
  /\ pc' = "Responded"
  /\ UNCHANGED <<file, init_meta, init_log, flash, jump, boots, conns, boot_log, client, conn, erased, irq_log, programmed, snap>>

\* the reset request has no effect and the accept loop goes on
AfterResetNone == "Idle"

\* line 438: a write of SYSRESETREQ to SCB_AIRCR restarts the program
AfterReset == "PowerOn"

\* lines 437-439: SCB_AIRCR = 0x05FA0004, the system resets
Reset ==
  /\ pc = "Responded"
  /\ events' = Append(events, "reset")
  /\ pc' = AfterReset
  /\ init_meta' = ZeroMeta
  /\ init_log' = "none"
  /\ UNCHANGED <<file, flash, jump, boots, conns, boot_log, client, conn, response, erased, irq_log, programmed, snap>>

Next ==
  \/ BootHalt
  \/ Boot
  \/ PowerCycle
  \/ Accept
  \/ Continue
  \/ ServeForm
  \/ Echo
  \/ ReadUpload
  \/ TooLarge
  \/ Timeout
  \/ ExtractFail
  \/ FlashPayload
  \/ UpdateMetadata
  \/ Respond
  \/ Reset

Spec == Init /\ [][Next]_vars

\* the steps the program takes on a connection it has accepted
Serve ==
  \/ ServeForm
  \/ Echo
  \/ ReadUpload
  \/ TooLarge
  \/ Timeout
  \/ ExtractFail
  \/ FlashPayload
  \/ UpdateMetadata
  \/ Respond
  \/ Reset
  \/ Continue

\* setup() is the only thread and every loop it runs on a connection ends
\* (the polls by their deadlines, the flash waits by the controller's flags):
\* a step that is due is taken
LiveSpec == Spec /\ WF_vars(Serve)

TypeOK ==
  /\ pc \in {"PowerOn", "Halted", "BootA", "BootB", "Loop", "Idle", "Route", "Body", "Closed",
             "Flashed", "Saved", "Responded"}
  /\ \E k \in 0 .. 2 * MaxBoots + 1 : Len(file) \in {k * META_SIZE, Len(WFF) + k * META_SIZE}
  /\ DOMAIN flash = FlashAddrs

\* ------------------------------------------------------------------ properties
RecoveryStates == {"Idle", "Route", "Body", "Closed", "Flashed", "Saved", "Responded"}

\* the boot decision has been taken in this run of setup()
Decided == pc \in {"BootA", "BootB", "Loop"} \cup RecoveryStates

Masked(w) == And32(w, VT_MASK) = VT_MASK

ValidFlag(m, address) == IF address = SLOT_A_ADDRESS THEN m.valid_a ELSE m.valid_b

\* C1: control is transferred to a slot only if the loaded metadata has that
\* slot's valid flag set and both words jump_to_app loads (the initial stack
\* pointer and the reset vector) pass (w & 0x60000000) == 0x60000000.
C1_JumpOnlyCheckedSlot ==
  /\ (pc \in {"BootA", "BootB"}) = (jump # NoJump)
  /\ jump # NoJump =>
       /\ jump.address = (IF pc = "BootA" THEN SLOT_A_ADDRESS ELSE SLOT_B_ADDRESS)
       /\ Truthy(ValidFlag(init_meta, jump.address))
       /\ Masked(jump.stack_pointer)
       /\ Masked(jump.program_counter)

\* a jump into slot B on the boot after an upload into the blank slot B
\* (its first sector written, the next one still erased), slot A holding no
\* image
C1_Witness ==
  /\ pc = "BootB"
  /\ boots = 2
  /\ jump.address = SLOT_B_ADDRESS
  /\ flash[SLOT_B_ADDRESS] = WGOOD
  /\ flash[SLOT_B_ADDRESS + SECTOR_SIZE] = WFF
  /\ ~VectorTableOk(flash, SLOT_A_ADDRESS)

\* the decision table of the boot selector: the first matching branch
TableDecision(m) ==
  IF m.active_slot = W0 /\ Truthy(m.valid_a) THEN "BootA"
  ELSE IF m.active_slot = W1 /\ Truthy(m.valid_b) THEN "BootB"
  ELSE IF Truthy(m.valid_a) THEN "BootA"
  ELSE IF Truthy(m.valid_b) THEN "BootB"
  ELSE "Recovery"

Outcome == IF pc \in RecoveryStates THEN "Recovery" ELSE pc

\* every slot whose valid flag is set has a plausible vector table
CandidatesPlausible(m, f) ==
  /\ Truthy(m.valid_a) => VectorTableOk(f, SLOT_A_ADDRESS)
  /\ Truthy(m.valid_b) => VectorTableOk(f, SLOT_B_ADDRESS)

\* C2: when every candidate slot's vector table is plausible, the boot
\* decision is the first matching branch of the table: active slot A valid,
\* active slot B valid, A valid, B valid, otherwise Recovery.
C2_DecisionTable ==
  (pc \in {"BootA", "BootB", "Loop", "Idle"} /\ CandidatesPlausible(init_meta, flash))
    => Outcome = TableDecision(init_meta)

\* {active_slot:1, valid_a, valid_b} boots B: branch 2 wins over branch 3
C2_Witness ==
  /\ pc = "BootB"
  /\ init_meta = MkMeta(W1, W1, W1)
  /\ VectorTableOk(flash, SLOT_A_ADDRESS)

\* the record with the valid flag of every implausible slot cleared
Effective(m, f) ==
  [m EXCEPT !.valid_a = IF VectorTableOk(f, SLOT_A_ADDRESS) THEN m.valid_a ELSE W0,
            !.valid_b = IF VectorTableOk(f, SLOT_B_ADDRESS) THEN m.valid_b ELSE W0]

\* C3: a candidate that fails the vector-table check is treated as if its
\* valid flag were false and the decision goes on with the next branch.
C3_RejectedCandidateFallsThrough ==
  pc \in {"BootA", "BootB", "Loop", "Idle"}
    => Outcome = TableDecision(Effective(init_meta, flash))

\* C4: every boot whose file system started ends in BootA, BootB or
\* Recovery, and in Recovery when the vector-table check rejects every
\* candidate whose valid flag is set.
C4_BootEndsInTerminalState ==
  Decided =>
    /\ Outcome \in {"BootA", "BootB", "Recovery"}
    /\ (pc \in {"BootA", "BootB", "Loop", "Idle"}
          /\ ~(Truthy(init_meta.valid_a) /\ VectorTableOk(flash, SLOT_A_ADDRESS))
          /\ ~(Truthy(init_meta.valid_b) /\ VectorTableOk(flash, SLOT_B_ADDRESS)))
         => Outcome = "Recovery"

\* C5: when the read-back after the write finds a mismatching word, the
\* metadata is neither updated nor persisted.
C5_NoMetadataAfterFailedVerify ==
  conn.verify_failed =>
    /\ file = snap.file
    /\ pc \in {"Flashed", "Saved", "Responded"} => init_meta = snap.init_meta

\* the slot active_slot names, and the other one
ActiveBase(m) == IF m.active_slot = W0 THEN SLOT_A_ADDRESS ELSE SLOT_B_ADDRESS
InactiveBase(m) == IF m.active_slot = W0 THEN SLOT_B_ADDRESS ELSE SLOT_A_ADDRESS

\* C6: a successful upload targets the slot active_slot does not name,
\* leaves the flash of the active slot alone, and afterwards the persisted
\* metadata names the target as active and valid and the other slot invalid.
C6_UploadFlipsToInactiveSlot ==
  /\ pc \in {"Flashed", "Saved", "Responded"} =>
       /\ conn.target_addr = InactiveBase(snap.init_meta)
       /\ programmed \cap SlotAddrs(ActiveBase(snap.init_meta)) = {}
       /\ \A a \in SlotAddrs(ActiveBase(snap.init_meta)) : SectorBase(a) \notin erased
       /\ \A a \in SlotAddrs(ActiveBase(snap.init_meta)) : flash[a] = snap.flash[a]
  /\ pc \in {"Saved", "Responded"} =>
       /\ LoadOk(file)
       /\ ActiveBase(LoadMetadata(file)) = conn.target_addr
       /\ Truthy(ValidFlag(LoadMetadata(file), conn.target_addr))
       /\ ~Truthy(ValidFlag(LoadMetadata(file), ActiveBase(snap.init_meta)))

UploadOrder == <<"erase", "program", "save", "200", "reset">>

\* C7: a successful upload erases and programs the inactive slot, then
\* saves the flipped metadata, then answers 200, then requests the reset,
\* once; after the reset request no connection is served and the program is
\* at the start of setup().
C7_UploadStepOrder ==
  /\ Len(events) <= Len(UploadOrder)
  /\ events = SubSeq(UploadOrder, 1, Len(events))
  /\ Len(events) >= 2 => programmed # {} /\ erased # {}
  /\ Len(events) >= 3 => init_meta = FlipMetadata(snap.init_meta) \/ pc = "PowerOn"
  /\ (response = "200") = (Len(events) >= 4)
  /\ Len(events) = 5 => pc = "PowerOn" /\ ~ENABLED Accept
  /\ pc = "Flashed" => Len(events) = 2
  /\ pc = "Saved" => Len(events) = 3
  /\ pc = "Responded" => Len(events) = 4

\* the reset has been requested after a whole upload
C7_Witness ==
  /\ pc = "PowerOn"
  /\ events = UploadOrder
  /\ response = "200"
  /\ file = Serialize(MkMeta(W1, W0, W1))

\* the body the client sent is a single-part upload and arrived whole
WholeUpload == client.body \in {MkBody(p) : p \in Payloads} /\ conn.code = client.body

\* C8: for a body BOUNDARY CRLF headers CRLF CRLF PAYLOAD CRLF BOUNDARY--
\* the extracted range [bin_start, bin_end) is exactly the payload.
C8_ExtractedRangeIsPayload ==
  (BodyAccepted /\ WholeUpload) =>
    Extract(conn.code) =
      [bin_start |-> PayloadStart, bin_end |-> PayloadStart + (Len(client.body) - Framing)]

\* the sectors the byte range [addr, addr + len) overlaps
SectorsOf(addr, len) == {SectorBase(addr + k) : k \in 0 .. len - 1}

\* C9: a write of len bytes at addr first erases every sector the range
\* overlaps; no word is programmed into a sector the write did not erase.
C9_WriteErasesEverySector ==
  pc = "Flashed" =>
    /\ SectorsOf(conn.target_addr, conn.bin_end - conn.bin_start) \subseteq erased
    /\ \A a \in programmed : SectorBase(a) \in erased

\* C10: when the body read exceeds MAX_UPLOAD_SIZE the answer is 413, flash
\* and metadata (in memory and in the file) are as they were when the
\* connection was accepted, and the accept loop goes on.
C10_TooLargeHasNoEffect ==
  /\ conn.upload_bytes > MAX_UPLOAD_SIZE =>
       /\ pc \in {"Body", "Closed"}
       /\ pc = "Closed" => response = "413"
       /\ flash = snap.flash /\ file = snap.file /\ init_meta = snap.init_meta
  /\ response = "413" =>
       /\ conn.upload_bytes > MAX_UPLOAD_SIZE
       /\ pc = "Closed"
       /\ ENABLED Continue

\* a 413 sent for a body whose Content-Length told the truth
C10_Witness ==
  /\ response = "413"
  /\ conn.content_length = MAX_UPLOAD_SIZE + 1
  /\ conn.upload_bytes = MAX_UPLOAD_SIZE + 1

\* the locals of an upload connection hold what the reading loops left
UploadRead ==
  /\ pc \in {"Body", "Closed", "Flashed", "Saved", "Responded"}
  /\ StartsWith(conn.req_line, POST_UPLOAD)

\* the header block came in one arrival
HeadersWhole == client.hdr = <<HeaderBlock(client.cl)>>

RECURSIVE SumN(_)
SumN(bursts) == IF bursts = <<>> THEN 0 ELSE Head(bursts).n + SumN(Tail(bursts))

\* the bursts that come before the first silence of BODY_TIMEOUT_MS
RECURSIVE BeforeStall(_)
BeforeStall(bursts) ==
  IF bursts = <<>> \/ Head(bursts).gap >= BODY_TIMEOUT_MS THEN <<>>
  ELSE <<Head(bursts)>> \o BeforeStall(Tail(bursts))

\* the client stays connected and silent for BODY_TIMEOUT_MS after the bytes
\* of BeforeStall, and those bytes do not complete the body
StalledIncomplete ==
  LET before == BeforeStall(client.bursts)
  IN /\ Len(before) < Len(client.bursts) \/ ~client.closes
     /\ SumN(before) < BodyLimit(conn.content_length)
     /\ SumN(before) <= MAX_UPLOAD_SIZE

\* C11: the deadline of the body loop is re-armed by every byte: the upload
\* is answered 408 exactly when the body is incomplete and the connected
\* client sends nothing for ten seconds, however long the whole body takes,
\* and a 408 leaves flash and metadata as they were.
C11_TimeoutAfterTenSilentSeconds ==
  /\ (UploadRead /\ HeadersWhole) =>
       /\ conn.timed_out = StalledIncomplete
       /\ (conn.timed_out /\ pc = "Closed") => response = "408"
  /\ response = "408" =>
       /\ conn.timed_out
       /\ pc = "Closed"
       /\ flash = snap.flash /\ file = snap.file /\ init_meta = snap.init_meta
       /\ erased = {} /\ programmed = {}

\* a 408 for a client that sent ten bytes and then nothing for ten seconds
C11_Witness ==
  /\ response = "408"
  /\ conn.upload_bytes = 10
  /\ client.bursts[2].gap = BODY_TIMEOUT_MS

\* the first index at or after `from` where pat occurs in s; Len(s) when none
FirstAt(s, pat, from) ==
  LET at == {i \in from .. Len(s) : MatchAt(s, pat, i)}
  IN IF at = {} THEN Len(s) ELSE CHOOSE i \in at : \A j \in at : i <= j

\* the bytes of s before its first line end
FirstLine(s) == SubSeq(s, 1, FirstAt(s, CRLF, 0))

\* the ways the extraction fails: no "Content-Type:", no empty line after
\* it, no boundary line after the part headers, or an end that is not after
\* the start
ExtractionFails(code) ==
  LET ct == FirstAt(code, CONTENT_TYPE, 0)
      blank == FirstAt(code, CRLFCRLF, ct)
      start == blank + 4
      close == FirstAt(code, FirstLine(code), start)
  IN \/ ct = Len(code)
     \/ blank = Len(code)
     \/ close = Len(code)
     \/ close - 4 <= start

\* C12: an upload whose body was read without 413 or 408 and whose
\* extraction fails (no Content-Type marker, no empty line, no closing
\* boundary, or an end not after the start; an empty body is one of them) is
\* answered 400, and a 400 comes with no erase, no write and no change of
\* flash or metadata.
C12_ExtractionFailureIs400 ==
  /\ (UploadRead /\ pc # "Body" /\ ~conn.upload_too_large /\ ~conn.timed_out
        /\ ExtractionFails(conn.code))
       => pc = "Closed" /\ response = "400"
  /\ response = "400" =>
       /\ pc = "Closed"
       /\ ExtractionFails(conn.code)
       /\ erased = {} /\ programmed = {}
       /\ flash = snap.flash /\ file = snap.file /\ init_meta = snap.init_meta

\* a 400 for a body with both markers and the closing boundary, whose
\* computed end is the computed start
C12_Witness ==
  /\ response = "400"
  /\ Extract(conn.code).bin_start = PayloadStart
  /\ Extract(conn.code).bin_end = PayloadStart

\* a 400 for the empty body of an upload without Content-Length
C12_WitnessEmptyBody ==
  /\ response = "400"
  /\ client.cl = 0
  /\ client.body # <<>>
  /\ conn.code = <<>>

\* C13: save(M) followed by load() succeeds and yields M, whether the store
\* was empty or held an earlier record: after the upload path's
\* save_metadata has written, load_metadata returns init_meta.
C13_SaveThenLoadYieldsRecord ==
  (pc = "Saved" /\ file # snap.file /\ Len(snap.file) \in {0, META_SIZE})
    => LoadOk(file) /\ LoadMetadata(file) = init_meta

\* the store is empty or holds a record with the sentinel in active_slot
NeedsInit(f) == f = <<>> \/ (LoadOk(f) /\ LoadMetadata(f).active_slot = WFF)

\* C14: of two consecutive boots, the first from an empty store or from a
\* sentinel record and its initialising write accepted by the store, both
\* use the all-zero record and only the first writes to the store.
C14_InitialisationHappensOnce ==
  \A i \in 1 .. Len(boot_log) - 1 :
    (NeedsInit(boot_log[i].before) /\ boot_log[i].wrote
       /\ boot_log[i + 1].before = boot_log[i].after)
      => /\ boot_log[i].meta = ZeroMeta
         /\ boot_log[i + 1].meta = ZeroMeta
         /\ ~boot_log[i + 1].wrote

\* C15: a connection on which no byte arrives within a second of the accept
\* is abandoned: no response is sent on it.
C15_SilentConnectionIsAbandoned ==
  (conns > 0 /\ client.first_byte >= FIRST_BYTE_MS) => response = "none"

\* "POST /upload", "GET / " and "GET /HTTP" as the request line of the
\* connection begins with them
LineBegins(text) ==
  /\ Len(conn.req_line) >= Len(text)
  /\ \A i \in 1 .. Len(text) : conn.req_line[i] = text[i]

IsUploadLine == LineBegins(<<80, 79, 83, 84, 32, 47, 117, 112, 108, 111, 97, 100>>)

IsFormLine ==
  \/ LineBegins(<<71, 69, 84, 32, 47, 32>>)
  \/ LineBegins(<<71, 69, 84, 32, 47, 72, 84, 84, 80>>)

\* C16: the route is chosen by the prefix of the request line alone: POST
\* /upload takes the upload path, GET / and GET /HTTP get the form as 200
\* text/html, every other line gets 200 text/plain; the form and the
\* fallback close the connection and leave flash and metadata alone.
C16_RoutingByRequestLinePrefix ==
  /\ pc \in {"Body", "Flashed", "Saved", "Responded"} => IsUploadLine
  /\ pc = "Closed" =>
       /\ IsUploadLine => response \in {"400", "408", "413"}
       /\ (~IsUploadLine /\ IsFormLine) => response = "200 text/html"
       /\ (~IsUploadLine /\ ~IsFormLine) => response = "200 text/plain"
  /\ response \in {"200 text/html", "200 text/plain"} =>
       /\ pc = "Closed"
       /\ ~IsUploadLine
       /\ events = <<>> /\ erased = {} /\ programmed = {}
       /\ flash = snap.flash /\ file = snap.file /\ init_meta = snap.init_meta

\* the form served for "GET /HTTP"
C16_Witness ==
  /\ response = "200 text/html"
  /\ conn.req_line = GET_HTTP
  /\ pc = "Closed"

\* a response was sent on the connection and the connection was closed
Answered == response # "none" /\ pc \in {"Closed", "Responded"}

\* C17: every accepted connection is answered and closed; after a connection
\* that ends as form, fallback, 400, 408 or 413 the program is back in the
\* accept loop with flash and metadata as they were.
C17_EveryConnectionIsAnswered ==
  /\ (pc = "Route") ~> Answered
  /\ (pc = "Closed") ~> (pc = "Idle")
  /\ [](pc = "Closed" =>
          /\ response \in {"200 text/html", "200 text/plain", "400", "408", "413"}
          /\ flash = snap.flash /\ file = snap.file /\ init_meta = snap.init_meta)

\* back in the accept loop after a 408
C17_Witness ==
  /\ pc = "Closed"
  /\ response = "408"
  /\ ENABLED Continue

\* C18: extraction and flashing come only after Content-Length body bytes
\* have been read: a connection whose body loop ended with fewer bytes
\* erases nothing, programs nothing and leaves the metadata file alone.
C18_FlashOnlyAfterWholeBody ==
  (UploadRead /\ HeadersWhole /\ conn.content_length = client.cl
     /\ conn.upload_bytes < conn.content_length) =>
    /\ pc \notin {"Flashed", "Saved", "Responded"}
    /\ erased = {} /\ programmed = {}
    /\ flash = snap.flash /\ file = snap.file

\* C19: however the header bytes are split across arrivals, the header loop
\* reads up to the empty line: content_length is the number the client
\* announced and the body read starts at the first byte of the body.
C19_HeadersReadWhateverTheSplit ==
  UploadRead =>
    /\ conn.content_length = client.cl
    /\ conn.code = SubSeq(client.body, 1, conn.upload_bytes)

\* the commands given to the flash controller
FlashCommands == {"write_enable", "sector_erase", "page_program"}

\* the steps during which a command is being issued or waited for
InFlight == FlashCommands \cup {"wait", "wait_ready"}

\* C20: every write-enable, sector-erase and page-program command is issued
\* with interrupts disabled; interrupts are enabled when flash_erase_sector
\* and flash_write return; and from the first command to the last wait of
\* one call there is no step after which an interrupt could be taken.
C20_FlashCommandsWithInterruptsOff ==
  /\ \A i \in DOMAIN irq_log :
       /\ irq_log[i].op \in InFlight => ~irq_log[i].irq
       /\ irq_log[i].op = "return" => irq_log[i].irq
  /\ \A k \in DOMAIN irq_log :
       irq_log[k].irq =>
         ~\E i \in 1 .. (k - 1), j \in (k + 1) .. Len(irq_log) :
            /\ irq_log[i].op \in InFlight
            /\ irq_log[j].op \in InFlight
            /\ irq_log[i].site = irq_log[j].site
  /\ pc \in {"Flashed", "Saved", "Responded"} => irq_log # <<>>

\* an upload flashed: both calls of flash_erase_sector have returned and
\* flash_write has programmed more than one word
C20_Witness ==
  /\ pc = "Flashed"
  /\ \E i \in DOMAIN irq_log : irq_log[i].site = 405 /\ irq_log[i].op = "sector_erase"
  /\ \E i \in DOMAIN irq_log : irq_log[i].site = 88 /\ irq_log[i].op = "sector_erase"
  /\ \E i, j \in DOMAIN irq_log :
       i < j /\ irq_log[i].op = "page_program" /\ irq_log[j].op = "page_program"
  /\ irq_log[Len(irq_log)].op = "return" /\ irq_log[Len(irq_log)].site = 406

\* 0x00000000, or erased flash 0xFFFFFFFF
Blank(w) == w \in {W0, WFF}

\* C21: a slot whose initial stack pointer and reset vector are blank words
\* (all zero, or all ones as erased flash reads) is never jumped to, whatever
\* its valid flag says.
C21_BlankSlotNeverBooted ==
  jump # NoJump => ~(Blank(jump.stack_pointer) /\ Blank(jump.program_counter))

\* C22: when the re-read after the initialising write fails or gives a
\* record that is not the zeroed one, startup stops: no slot is booted and
\* recovery is not entered in that boot.
C22_RereadDivergenceIsFatal ==
  init_log = "write_failed" => pc \notin {"BootA", "BootB"} \cup RecoveryStates

\* the first boot of this run found no /meta.bin
FromEmptyStore == boot_log # <<>> /\ boot_log[1].before = <<>>

\* the records /meta.bin holds, one for every META_SIZE bytes
RecordsIn(f) ==
  {Deserialize(SubSeq(f, k * META_SIZE + 1, (k + 1) * META_SIZE))
     : k \in 0 .. ((Len(f) \div META_SIZE) - 1)}

\* at most one valid flag, and active_slot names the slot whose flag is set
OneValidSlot(m) ==
  /\ ~(Truthy(m.valid_a) /\ Truthy(m.valid_b))
  /\ Truthy(m.valid_a) => m.active_slot = W0
  /\ Truthy(m.valid_b) => m.active_slot = W1

\* every record written since the store was empty has one valid slot at most
PersistedRecordsOneValid ==
  FromEmptyStore => \A m \in RecordsIn(file) : OneValidSlot(m)

\* after the 200 of an upload, load_metadata as the next boot calls it yields
\* a record that names the written slot as active and valid
CommitReadBack ==
  (FromEmptyStore /\ pc = "Responded" /\ response = "200") =>
    /\ LoadOk(file)
    /\ ActiveBase(LoadMetadata(file)) = conn.target_addr
    /\ Truthy(ValidFlag(LoadMetadata(file), conn.target_addr))

\* C23: from an empty store, every record the bootloader persists has at
\* most one valid flag, set only for the slot active_slot names; and after
\* the 200 answer to an upload the record the next boot reads names the
\* written slot as active and valid.
C23_PersistedMetadataConsistent ==
  /\ PersistedRecordsOneValid
  /\ CommitReadBack

============================================================================
